---- MODULE Spec2Model ----
(***************************************************************************)
(* Batch channel-open coordinator of senseicore (src/senseicore/src/       *)
(* channels.rs): ChannelOpener::open_batch, wait_for_events and            *)
(* initiate_channel_open, with the collaborators they call (peer manager,  *)
(* channel manager, event bus, wallet, fee estimator, broadcaster)         *)
(* modelled as an environment that answers nondeterministically.           *)
(***************************************************************************)
EXTENDS Integers, Sequences, FiniteSets, TLC

VARIABLES
    pc,                 \* position of open_batch
    input,              \* the requests as passed by the caller
    requests,           \* the requests after the id-assigning map (lines 87-97)
    idx,                \* loop position (initiation loop, dispatch map)
    requests_with_results, \* Vec<(request, result[, counterparty_node_id])>
    filters,            \* the correlator's remaining filters
    given,              \* the filter set wait_for_events was called with
    events,             \* the correlator's matched events
    current_ms,         \* the correlator's elapsed-time counter
    timeout_ms,         \* wait_for_events parameter
    interval_ms,        \* wait_for_events parameter
    suspensions,        \* number of poll-interval sleeps started in this call
    bus,                \* events waiting in self.event_receiver
    peers,              \* peer_manager.get_peer_node_ids()
    channels,           \* channels the engine created (create_channel Ok)
    unsent,             \* tcids whose funding-ready event the engine still owes
    foreign,            \* number of events sent by other activity on the bus
    wallet_locked,      \* the wallet mutex is held by this invocation
    fee_native,         \* fee_sats_per_1000_wu as returned by the estimator
    fee_rate,           \* sat_per_vb handed to FeeRate::from_sat_per_vb
    funding_tx,         \* the shared transaction (its recipients), or NoTx
    debounce,           \* calls of broadcaster.set_debounce
    completions,        \* calls of channel_manager.funding_transaction_generated
    results,            \* what open_batch returned
    initiation,         \* history: what initiate_channel_open returned, per request
    drained,            \* history: the events try_recv handed to the correlator
    panic,              \* history: what panicked (an expect, or "wallet" for the
                        \* unwraps of lines 162-191), or "none"
    lagged,             \* the receiver missed events: the next try_recv is Err(Lagged)
    peers_before,       \* history: peers when the latest initiate_channel_open began
    late,               \* history: tcids whose event was sent after the wait returned
    wallet_poisoned     \* the wallet mutex is poisoned: a holder panicked

vars == <<pc, input, requests, idx, requests_with_results, filters, given, events,
          current_ms, timeout_ms, interval_ms, suspensions, bus, peers, channels,
          unsent, foreign, wallet_locked, fee_native, fee_rate, funding_tx,
          debounce, completions, results, initiation, drained, panic, lagged,
          peers_before, late, wallet_poisoned>>

----------------------------------------------------------------------------
(* Bounds of the model *)

\* longest batch passed to open_batch
MaxReq == 2
\* stands for u64::MAX: correlation ids range over 0..U64Max
U64Max == 3
\* events put on the bus by activity other than this batch
MaxForeign == 1
\* events the receiver of the broadcast channel retains: a send that finds the
\* receiver that far behind overwrites the oldest event
BusCapacity == 2

(* Program constants *)

\* wait_for_events(filters, 30000, 500)
TimeoutMs == 30000
IntervalMs == 500

----------------------------------------------------------------------------
(* Option<T> as a sequence of length at most one *)

None == <<>>
Some(v) == <<v>>
IsSome(o) == Len(o) = 1
Unwrap(o) == o[1]

(* Result<[u8; 32], Error> *)

Ok(t) == [ok |-> TRUE, tcid |-> t, err |-> "none"]
Err(e) == [ok |-> FALSE, tcid |-> 0, err |-> e]

----------------------------------------------------------------------------
(* The node and its environment *)

NodeId == "n1"
OtherNodeId == "n2"

\* strings parse_pubkey accepts
ValidPubkeys == {"pA", "pB", "pC"}
\* peers connected before the batch starts
InitPeers == {"pA", "pB"}
\* strings parse_peer_addr accepts
ValidHostPorts == {"hostC:9735"}

Req(pk, hp, amt, id) ==
    [counterparty_pubkey |-> pk, counterparty_host_port |-> hp,
     amount_sats |-> amt, custom_id |-> id]

\* the requests a caller may put in a batch
RequestUniverse ==
    { Req("pA", None, 1, None),
      Req("pB", None, 2, Some(1)),
      Req("pC", Some("hostC:9735"), 3, None),
      Req("pC", Some("garbage"), 3, None),
      Req("pC", None, 3, None),
      Req("zz", None, 1, None) }

SeqsUpTo(S, n) == UNION { [1..k -> S] : k \in 0..n }

Batches == SeqsUpTo(RequestUniverse, MaxReq)

----------------------------------------------------------------------------
(* SenseiEvent *)

FundingGenerationReady(node, ucid, cp, value, script) ==
    [type |-> "FundingGenerationReady", node_id |-> node, user_channel_id |-> ucid,
     counterparty_node_id |-> cp, channel_value_satoshis |-> value,
     output_script |-> script]

\* any other variant of SenseiEvent
OtherEvent ==
    [type |-> "Other", node_id |-> NodeId, user_channel_id |-> 0,
     counterparty_node_id |-> "none", channel_value_satoshis |-> 0,
     output_script |-> <<"none", 0>>]

\* the funding-ready event the engine emits for a channel it created
EventOf(c) ==
    FundingGenerationReady(NodeId, c.user_channel_id, c.counterparty, c.value,
                           <<"p2wsh", c.tcid>>)

\* events that reach the receiver from elsewhere: an earlier or concurrent batch of
\* this node that used correlation id 1, another node, another variant
ForeignEvents ==
    { FundingGenerationReady(NodeId, 1, "pX", 9, <<"p2wsh", 0>>),
      FundingGenerationReady(OtherNodeId, 1, "pX", 9, <<"p2wsh", 0>>),
      OtherEvent }

----------------------------------------------------------------------------
(* open_batch, lines 87-97: every request gets Some(custom_id) *)

\* thread_rng().gen_range(1..u64::MAX): the upper end is excluded
GenRange == 1..(U64Max - 1)

\* the map of lines 87-97 under the draws g (one per position)
AssignedWith(reqs, g) ==
    [k \in 1..Len(reqs) |->
        [reqs[k] EXCEPT !.custom_id =
            Some(IF IsSome(reqs[k].custom_id) THEN Unwrap(reqs[k].custom_id) ELSE g[k])]]

AssignIds ==
    /\ pc = "start"
    /\ \E g \in [1..Len(input) -> GenRange] : requests' = AssignedWith(input, g)
    /\ idx' = 1
    /\ pc' = "initiate"
    /\ UNCHANGED <<input, requests_with_results, filters, given, events, current_ms,
                   timeout_ms, interval_ms, suspensions, bus, peers, channels, unsent,
                   foreign, wallet_locked, fee_native, fee_rate, funding_tx, debounce,
                   completions, results, initiation,
                   drained, panic,
                   lagged, peers_before, late,
                   wallet_poisoned>>

----------------------------------------------------------------------------
(* initiate_channel_open, lines 222-268 *)

\* parse_pubkey(..).expect(..), line 224
PubkeyParses(r) == r.counterparty_pubkey \in ValidPubkeys

\* line 225-228
AlreadyConnected(r, ps) == r.counterparty_pubkey \in ps

\* the expect of line 230
HostPortGiven(r) == IsSome(r.counterparty_host_port)

\* parse_peer_addr(..).await.expect(..), lines 231-233
AddrParses(r) == Unwrap(r.counterparty_host_port) \in ValidHostPorts

\* lines 223-230: an expect fails before the first await of the call
MustPanic(r, ps) ==
    \/ ~PubkeyParses(r)
    \/ /\ ~AlreadyConnected(r, ps)
       /\ ~HostPortGiven(r)

\* the message of the expect that fails
PanicOf(r, ps) ==
    IF ~PubkeyParses(r) THEN "failed to parse pubkey"
    ELSE "you must provide connection information"

\* lines 229-246 are entered and reach the first await
MustConnect(r, ps) == ~MustPanic(r, ps) /\ ~AlreadyConnected(r, ps)

\* the closure of lines 107-120
FilterFor(r) == [node_id |-> NodeId, user_channel_id |-> Unwrap(r.custom_id)]

\* the engine's record of a channel it agreed to create (lines 249-255)
ChannelFor(r, t) ==
    [tcid |-> t, counterparty |-> r.counterparty_pubkey, value |-> r.amount_sats,
     user_channel_id |-> Unwrap(r.custom_id)]

Entry(r, res, cp) == [request |-> r, result |-> res, counterparty_node_id |-> cp]

\* lines 102 and 223-230: the call begins and an expect panics; the panic unwinds
\* through open_batch
InitiatePanics ==
    /\ pc = "initiate"
    /\ idx <= Len(requests)
    /\ MustPanic(requests[idx], peers)
    /\ panic' = PanicOf(requests[idx], peers)
    /\ peers_before' = peers
    /\ pc' = "panicked"
    /\ UNCHANGED <<input, requests, idx, requests_with_results, filters, given, events,
                   current_ms, timeout_ms, interval_ms, suspensions, bus, peers,
                   channels, unsent, foreign, wallet_locked, fee_native, fee_rate,
                   funding_tx, debounce, completions, results, initiation, drained,
                   lagged, late,
                   wallet_poisoned>>

\* lines 102 and 223-232: the peer is not connected, the call suspends in
\* parse_peer_addr(..).await
AwaitParseAddr ==
    /\ pc = "initiate"
    /\ idx <= Len(requests)
    /\ MustConnect(requests[idx], peers)
    /\ peers_before' = peers
    /\ pc' = "parse_addr"
    /\ UNCHANGED <<input, requests, idx, requests_with_results, filters, given, events,
                   current_ms, timeout_ms, interval_ms, suspensions, bus, peers,
                   channels, unsent, foreign, wallet_locked, fee_native, fee_rate,
                   funding_tx, debounce, completions, results, initiation, drained,
                   panic, lagged, late,
                   wallet_poisoned>>

\* line 233: parse_peer_addr returned Err, the expect panics
ParseAddrPanics ==
    /\ pc = "parse_addr"
    /\ ~AddrParses(requests[idx])
    /\ panic' = "failed to parse host port for counterparty"
    /\ pc' = "panicked"
    /\ UNCHANGED <<input, requests, idx, requests_with_results, filters, given, events,
                   current_ms, timeout_ms, interval_ms, suspensions, bus, peers,
                   channels, unsent, foreign, wallet_locked, fee_native, fee_rate,
                   funding_tx, debounce, completions, results, initiation, drained,
                   lagged, peers_before, late,
                   wallet_poisoned>>

\* lines 233-239: the address parsed, the call suspends in
\* connect_peer_if_necessary(..).await
AwaitConnect ==
    /\ pc = "parse_addr"
    /\ AddrParses(requests[idx])
    /\ pc' = "connect"
    /\ UNCHANGED <<input, requests, idx, requests_with_results, filters, given, events,
                   current_ms, timeout_ms, interval_ms, suspensions, bus, peers,
                   channels, unsent, foreign, wallet_locked, fee_native, fee_rate,
                   funding_tx, debounce, completions, results, initiation, drained,
                   panic, lagged, peers_before, late,
                   wallet_poisoned>>

\* lines 240-245: connect_peer_if_necessary returned Err, the closure panics
ConnectPanics ==
    /\ pc = "connect"
    /\ panic' = "failed to connect to peer"
    /\ pc' = "panicked"
    /\ UNCHANGED <<input, requests, idx, requests_with_results, filters, given, events,
                   current_ms, timeout_ms, interval_ms, suspensions, bus, peers,
                   channels, unsent, foreign, wallet_locked, fee_native, fee_rate,
                   funding_tx, debounce, completions, results, initiation, drained,
                   lagged, peers_before, late,
                   wallet_poisoned>>

\* the peer set once connect_peer_if_necessary has connected r's counterparty
PeersAfterConnect(r, ps) == ps \cup {r.counterparty_pubkey}

\* lines 234-239: the connection is made, connect_peer_if_necessary returns Ok
PeerConnected ==
    /\ pc = "connect"
    /\ peers' = PeersAfterConnect(requests[idx], peers)
    /\ pc' = "create"
    /\ UNCHANGED <<input, requests, idx, requests_with_results, filters, given, events,
                   current_ms, timeout_ms, interval_ms, suspensions, bus,
                   channels, unsent, foreign, wallet_locked, fee_native, fee_rate,
                   funding_tx, debounce, completions, results, initiation, drained,
                   panic, lagged, peers_before, late,
                   wallet_poisoned>>

\* the call is about to reach create_channel (line 249) without suspending again:
\* it has just begun for a connected peer, or its connection has just been made
AtCreateChannel ==
    \/ /\ pc = "initiate"
       /\ idx <= Len(requests)
       /\ PubkeyParses(requests[idx])
       /\ AlreadyConnected(requests[idx], peers)
    \/ pc = "create"

\* peers as they were when the call that is at create_channel began
PeersAtCall == IF pc = "initiate" THEN peers ELSE peers_before

\* lines 249-262 and 104-124: create_channel returns Ok
InitiateCreated ==
    /\ AtCreateChannel
    /\ LET r == requests[idx]
           t == Len(channels) + 1
       IN /\ channels' = Append(channels, ChannelFor(r, t))
          /\ unsent' = unsent \cup {t}
          /\ filters' = Append(filters, FilterFor(r))
          /\ requests_with_results' = Append(requests_with_results, Entry(r, Ok(t), None))
    /\ idx' = idx + 1
    /\ initiation' = Append(initiation, Ok(Len(channels) + 1))
    /\ peers_before' = PeersAtCall
    /\ pc' = "initiate"
    /\ UNCHANGED <<input, requests, given, events, current_ms, timeout_ms,
                   interval_ms, suspensions, bus, peers, foreign, wallet_locked,
                   fee_native, fee_rate, funding_tx, debounce, completions, results,
                   drained, panic, lagged, late,
                   wallet_poisoned>>

\* create_channel returns Err, with a filter pushed all the same
InitiateRejected_with_filter ==
    /\ AtCreateChannel
    /\ LET r == requests[idx]
       IN /\ filters' = Append(filters, FilterFor(r))
          /\ requests_with_results' =
                Append(requests_with_results, Entry(r, Err("LdkApi"), None))
    /\ idx' = idx + 1
    /\ initiation' = Append(initiation, Err("LdkApi"))
    /\ peers_before' = PeersAtCall
    /\ pc' = "initiate"
    /\ UNCHANGED <<input, requests, given, events, current_ms, timeout_ms,
                   interval_ms, suspensions, bus, peers, channels, unsent, foreign,
                   wallet_locked, fee_native, fee_rate, funding_tx, debounce,
                   completions, results, drained, panic, lagged, late,
                   wallet_poisoned>>

\* lines 249-255, 263-266 and 104-124: create_channel returns Err
InitiateRejected ==
    /\ AtCreateChannel
    /\ LET r == requests[idx]
       IN requests_with_results' =
             Append(requests_with_results, Entry(r, Err("LdkApi"), None))
    /\ idx' = idx + 1
    /\ initiation' = Append(initiation, Err("LdkApi"))
    /\ peers_before' = PeersAtCall
    /\ pc' = "initiate"
    /\ UNCHANGED <<input, requests, filters, given, events, current_ms, timeout_ms,
                   interval_ms, suspensions, bus, peers, channels, unsent, foreign,
                   wallet_locked, fee_native, fee_rate, funding_tx, debounce,
                   completions, results, drained, panic, lagged, late,
                   wallet_poisoned>>

----------------------------------------------------------------------------
(* wait_for_events, lines 52-81 *)

\* line 128: the call, and lines 58-60: the locals and the first loop test
CallWait ==
    /\ pc = "initiate"
    /\ idx > Len(requests)
    /\ given' = filters
    /\ events' = <<>>
    /\ current_ms' = 0
    /\ timeout_ms' = TimeoutMs
    /\ interval_ms' = IntervalMs
    /\ suspensions' = 0
    /\ pc' = IF 0 < TimeoutMs THEN "drain" ELSE "correlated"
    /\ UNCHANGED <<input, requests, idx, requests_with_results, filters, bus, peers,
                   channels, unsent, foreign, wallet_locked, fee_native, fee_rate,
                   funding_tx, debounce, completions, results, initiation,
                   drained, panic,
                   lagged, peers_before, late,
                   wallet_poisoned>>

\* the closure of lines 107-120 with the event's counterparty taken for its node
Matches_counterparty(f, e) ==
    /\ e.type = "FundingGenerationReady"
    /\ e.counterparty_node_id = f.node_id
    /\ e.user_channel_id = f.user_channel_id

\* (filter.f)(event.clone()) for the closures open_batch builds
Matches(f, e) ==
    /\ e.type = "FundingGenerationReady"
    /\ e.node_id = f.node_id
    /\ e.user_channel_id = f.user_channel_id

\* lines 62-66: index of the first filter the event satisfies, 0 for None
FilterIndex(fs, e) ==
    IF \E k \in 1..Len(fs) : Matches(fs[k], e)
    THEN CHOOSE k \in 1..Len(fs) :
            /\ Matches(fs[k], e)
            /\ \A j \in 1..(k - 1) : ~Matches(fs[j], e)
    ELSE 0

\* Vec::pop in place of swap_remove: the last filter goes, whichever matched
SwapRemove_pop(fs, k) == [j \in 1..(Len(fs) - 1) |-> fs[j]]

\* Vec::swap_remove: the last element takes the place of the removed one
SwapRemove(fs, k) ==
    [j \in 1..(Len(fs) - 1) |-> IF j = k THEN fs[Len(fs)] ELSE fs[j]]

\* lines 61-75 without the swap_remove of line 70: a matched filter stays
TryRecvEvent_keeps_filter ==
    /\ pc = "drain"
    /\ ~lagged
    /\ bus # <<>>
    /\ LET event == Head(bus)
           index == FilterIndex(filters, event)
       IN /\ bus' = Tail(bus)
          /\ events' = IF index # 0 THEN Append(events, event) ELSE events
    /\ pc' = IF filters = <<>> THEN "correlated" ELSE "drain"
    /\ drained' = Append(drained, Head(bus))
    /\ UNCHANGED <<input, requests, idx, requests_with_results, filters, given,
                   current_ms, timeout_ms, interval_ms, suspensions, peers, channels,
                   unsent, foreign, wallet_locked, fee_native, fee_rate, funding_tx,
                   debounce, completions, results, initiation, panic, lagged,
                   peers_before, late,
                   wallet_poisoned>>

\* lines 61-75: try_recv returned Ok(event)
TryRecvEvent ==
    /\ pc = "drain"
    /\ ~lagged
    /\ bus # <<>>
    /\ LET event == Head(bus)
           index == FilterIndex(filters, event)
       IN /\ bus' = Tail(bus)
          /\ events' = IF index # 0 THEN Append(events, event) ELSE events
          /\ filters' = IF index # 0 THEN SwapRemove(filters, index) ELSE filters
    /\ pc' = IF filters' = <<>> THEN "correlated" ELSE "drain"
    /\ drained' = Append(drained, Head(bus))
    /\ UNCHANGED <<input, requests, idx, requests_with_results, given, current_ms,
                   timeout_ms, interval_ms, suspensions, peers, channels, unsent,
                   foreign, wallet_locked, fee_native, fee_rate, funding_tx, debounce,
                   completions, results, initiation, panic, lagged, peers_before, late,
                   wallet_poisoned>>

\* lines 61 and 77: try_recv returned Err, the while-let ends and the call suspends
\* in sleep(..).await.  The Err is Empty when nothing waits in the receiver, and
\* Lagged when the receiver missed events; Lagged leaves the retained events in
\* the receiver for the next try_recv.
TryRecvErr ==
    /\ pc = "drain"
    /\ lagged \/ bus = <<>>
    /\ lagged' = FALSE
    /\ suspensions' = suspensions + 1
    /\ pc' = "sleep"
    /\ UNCHANGED <<input, requests, idx, requests_with_results, filters, given, events,
                   current_ms, timeout_ms, interval_ms, bus, peers, channels, unsent,
                   foreign, wallet_locked, fee_native, fee_rate, funding_tx, debounce,
                   completions, results, initiation, drained, panic, peers_before, late,
                   wallet_poisoned>>

\* lines 77-80 with the loop test of line 60 taken as current_ms <= timeout_ms
Wake_inclusive ==
    /\ pc = "sleep"
    /\ current_ms' = current_ms + interval_ms
    /\ pc' = IF current_ms' <= timeout_ms THEN "drain" ELSE "correlated"
    /\ UNCHANGED <<input, requests, idx, requests_with_results, filters, given, events,
                   timeout_ms, interval_ms, suspensions, bus, peers, channels, unsent,
                   foreign, wallet_locked, fee_native, fee_rate, funding_tx, debounce,
                   completions, results, initiation, drained, panic, lagged,
                   peers_before, late,
                   wallet_poisoned>>

\* lines 77-80 and 60: the sleep ends, the counter advances, the loop test
Wake ==
    /\ pc = "sleep"
    /\ current_ms' = current_ms + interval_ms
    /\ pc' = IF current_ms' < timeout_ms THEN "drain" ELSE "correlated"
    /\ UNCHANGED <<input, requests, idx, requests_with_results, filters, given, events,
                   timeout_ms, interval_ms, suspensions, bus, peers, channels, unsent,
                   foreign, wallet_locked, fee_native, fee_rate, funding_tx, debounce,
                   completions, results, initiation, drained, panic, lagged,
                   peers_before, late,
                   wallet_poisoned>>

----------------------------------------------------------------------------
(* open_batch, lines 131-159 *)

\* lines 136-149: position of the first matched event carrying the id, 0 for None
FindEvent(evs, id) ==
    IF \E k \in 1..Len(evs) :
          evs[k].type = "FundingGenerationReady" /\ evs[k].user_channel_id = id
    THEN CHOOSE k \in 1..Len(evs) :
            /\ evs[k].type = "FundingGenerationReady" /\ evs[k].user_channel_id = id
            /\ \A j \in 1..(k - 1) :
                  ~(evs[j].type = "FundingGenerationReady" /\ evs[j].user_channel_id = id)
    ELSE 0

\* the closure of lines 133-158 on one element
Reclassified(entry, evs) ==
    IF entry.result.ok
    THEN LET k == FindEvent(evs, Unwrap(entry.request.custom_id))
         IN IF k = 0
            THEN Entry(entry.request, Err("FundingGenerationNeverHappened"), None)
            ELSE Entry(entry.request, entry.result, Some(evs[k].counterparty_node_id))
    ELSE Entry(entry.request, entry.result, None)

Reclassify ==
    /\ pc = "correlated"
    /\ requests_with_results' =
          [k \in 1..Len(requests_with_results) |->
              Reclassified(requests_with_results[k], events)]
    /\ pc' = "assemble"
    /\ UNCHANGED <<input, requests, idx, filters, given, events, current_ms, timeout_ms,
                   interval_ms, suspensions, bus, peers, channels, unsent, foreign,
                   wallet_locked, fee_native, fee_rate, funding_tx, debounce,
                   completions, results, initiation,
                   drained, panic,
                   lagged, peers_before, late,
                   wallet_poisoned>>

----------------------------------------------------------------------------
(* f32 arithmetic of lines 171-174.  A finite positive f32 is m * 2^e with     *)
(* 2^23 <= m < 2^24 (24 significant bits); zero is m = 0.  Operations round to *)
(* nearest, ties to even.  Native rates stay below 2^30 so that every          *)
(* intermediate value fits 32-bit integers.                                    *)

F32(m, e) == [m |-> m, e |-> e]
F32Zero == F32(0, 0)
MantLo == 2^23
MantHi == 2^24

\* round the quotient q with remainder rem (of divisor d) to nearest, ties to even
RoundNearestEven(q, rem, d) ==
    IF 2 * rem > d \/ (2 * rem = d /\ q % 2 = 1) THEN q + 1 ELSE q

\* `n as f32` for an unsigned integer n, as the integer it denotes
RECURSIVE ShiftOf(_)
ShiftOf(n) == IF n < MantHi THEN 0 ELSE 1 + ShiftOf(n \div 2)

AsF32(n) ==
    LET s == ShiftOf(n)
        p == 2^s
    IN RoundNearestEven(n \div p, n % p, p) * p

\* binary long division of a positive value by d until 24 significant bits stand
RECURSIVE Normalise(_, _, _, _)
Normalise(q, rem, d, e) ==
    IF q >= MantLo THEN <<q, rem, e>>
    ELSE Normalise(2 * q + (IF 2 * rem >= d THEN 1 ELSE 0), (2 * rem) % d, d, e - 1)

\* a / d in f32, for an integer-valued f32 a < 2^30 and an integer d > 0
F32Div(a, d) ==
    IF a = 0 THEN F32Zero
    ELSE LET n == Normalise(a \div d, a % d, d, 0)
             m == RoundNearestEven(n[1], n[2], d)
         IN IF m = MantHi THEN F32(MantLo, n[3] + 1) ELSE F32(m, n[3])

\* the literal 1.0
F32One == F32(MantLo, -23)

\* lines 171-174, without the special case for 253
sat_per_vb_no_floor(fee_sats_per_1000_wu) == F32Div(AsF32(fee_sats_per_1000_wu), 250)

\* lines 171-174
sat_per_vb(fee_sats_per_1000_wu) ==
    IF fee_sats_per_1000_wu = 253 THEN F32One
    ELSE F32Div(AsF32(fee_sats_per_1000_wu), 250)

----------------------------------------------------------------------------
(* open_batch, lines 161-192: the shared transaction *)

\* rates the estimator answers with in the batch model
FeeEstimates == {253, 500}

IsFundingReady(e) == e.type = "FundingGenerationReady"

Recipient(e) == [script |-> e.output_script, value |-> e.channel_value_satoshis]

\* lines 178-187 with one recipient per correlation id
Recipients_one_per_id(evs) ==
    LET first == SelectSeq(evs, IsFundingReady)
        kept == {k \in 1..Len(first) :
                    \A j \in 1..(k - 1) :
                        first[j].user_channel_id # first[k].user_channel_id}
        Nth[n \in 0..Len(first)] ==
            IF n = 0 THEN <<>>
            ELSE IF n \in kept THEN Append(Nth[n - 1], Recipient(first[n]))
            ELSE Nth[n - 1]
    IN Nth[Len(first)]

\* lines 178-187: the recipients added to the builder, in the order added
Recipients(evs) ==
    LET ready == SelectSeq(evs, IsFundingReady)
    IN [k \in 1..Len(ready) |-> Recipient(ready[k])]

\* the transaction as far as the coordinator decides it: the channel outputs it asked
\* for, the fee rate and the replace-by-fee flag (inputs and change are the wallet's)
Tx(recipients, rate) == [output |-> recipients, fee_rate |-> rate, rbf |-> TRUE]

\* funding_tx.txid()
Txid(tx) == <<"txid", tx.output>>

\* line 162 when the mutex is poisoned (a holder of the guard panicked, as
\* lines 190-191 do): lock() returns Err and the unwrap panics, before the fee
\* estimator is asked and before any builder call
LockPanics ==
    /\ pc = "assemble"
    /\ ~wallet_locked
    /\ wallet_poisoned
    /\ pc' = "panicked"
    /\ panic' = "wallet"
    /\ UNCHANGED <<input, requests, idx, requests_with_results, filters, given, events,
                   current_ms, timeout_ms, interval_ms, suspensions, bus, peers,
                   channels, unsent, foreign, wallet_locked, fee_native, fee_rate,
                   funding_tx, debounce, completions, results, initiation, drained,
                   lagged, peers_before, late, wallet_poisoned>>

\* lines 162-192 when the lock is taken and the wallet builds and signs
Assemble ==
    /\ pc = "assemble"
    /\ ~wallet_locked
    /\ ~wallet_poisoned
    /\ wallet_locked' = TRUE
    /\ \E fee \in FeeEstimates :
          /\ fee_native' = fee
          /\ fee_rate' = sat_per_vb(fee)
          /\ funding_tx' = Some(Tx(Recipients(events), sat_per_vb(fee)))
    /\ pc' = "debounce"
    /\ UNCHANGED <<input, requests, idx, requests_with_results, filters, given, events,
                   current_ms, timeout_ms, interval_ms, suspensions, bus, peers,
                   channels, unsent, foreign, debounce, completions, results, initiation,
                   drained, panic, lagged, peers_before, late, wallet_poisoned>>

\* lines 162-191 when the lock is taken and tx_builder.finish() or wallet.sign()
\* returns Err: the unwrap panics; unwinding drops the guard, which poisons the mutex
AssemblePanics ==
    /\ pc = "assemble"
    /\ ~wallet_locked
    /\ ~wallet_poisoned
    /\ \E fee \in FeeEstimates :
          /\ fee_native' = fee
          /\ fee_rate' = sat_per_vb(fee)
    /\ wallet_poisoned' = TRUE
    /\ pc' = "panicked"
    /\ panic' = "wallet"
    /\ UNCHANGED <<input, requests, idx, requests_with_results, filters, given, events,
                   current_ms, timeout_ms, interval_ms, suspensions, bus, peers,
                   channels, unsent, foreign, wallet_locked, funding_tx, debounce,
                   completions, results, initiation, drained, lagged, peers_before,
                   late>>

----------------------------------------------------------------------------
(* open_batch, lines 194-220: debouncer and completion *)

\* lines 194-197 without the filter on the result
channels_to_open_all(rwr) == Len(rwr)

\* lines 194-197
channels_to_open(rwr) == Cardinality({k \in 1..Len(rwr) : rwr[k].result.ok})

\* lines 199-200 left out: dispatch begins with nothing registered
SetDebounce_skipped ==
    /\ pc = "debounce"
    /\ idx' = 1
    /\ pc' = "dispatch"
    /\ UNCHANGED <<input, requests, requests_with_results, filters, given, events,
                   current_ms, timeout_ms, interval_ms, suspensions, bus, peers,
                   channels, unsent, foreign, wallet_locked, fee_native, fee_rate,
                   funding_tx, debounce, completions, results, initiation,
                   drained, panic,
                   lagged, peers_before, late,
                   wallet_poisoned>>

\* lines 199-200
SetDebounce ==
    /\ pc = "debounce"
    /\ debounce' = Append(debounce,
                          [txid |-> Txid(Unwrap(funding_tx)),
                           count |-> channels_to_open(requests_with_results)])
    /\ idx' = 1
    /\ pc' = "dispatch"
    /\ UNCHANGED <<input, requests, requests_with_results, filters, given, events,
                   current_ms, timeout_ms, interval_ms, suspensions, bus, peers,
                   channels, unsent, foreign, wallet_locked, fee_native, fee_rate,
                   funding_tx, completions, results, initiation,
                   drained, panic,
                   lagged, peers_before, late,
                   wallet_poisoned>>

\* the call with the peer named in the request instead of the one the event carries
Call_request_peer(entry, tx, accepted) ==
    [tcid |-> entry.result.tcid,
     counterparty_node_id |-> entry.request.counterparty_pubkey,
     tx |-> tx,
     accepted |-> accepted]

\* one call of funding_transaction_generated and the engine's answer to it
Call(entry, tx, accepted) ==
    [tcid |-> entry.result.tcid,
     counterparty_node_id |-> Unwrap(entry.counterparty_node_id),
     tx |-> tx,
     accepted |-> accepted]

\* lines 204-214 with the engine's answer dropped: the element keeps its result
DispatchCall_keeps_ok ==
    /\ pc = "dispatch"
    /\ idx <= Len(requests_with_results)
    /\ requests_with_results[idx].result.ok
    /\ IsSome(requests_with_results[idx].counterparty_node_id)
    /\ LET entry == requests_with_results[idx]
       IN \E accepted \in BOOLEAN :
             /\ completions' =
                   Append(completions, Call(entry, Unwrap(funding_tx), accepted))
             /\ results' = Append(results, <<entry.request, entry.result>>)
    /\ idx' = idx + 1
    /\ UNCHANGED <<pc, input, requests, requests_with_results, filters, given, events,
                   current_ms, timeout_ms, interval_ms, suspensions, bus, peers,
                   channels, unsent, foreign, wallet_locked, fee_native, fee_rate,
                   funding_tx, debounce, initiation,
                   drained, panic,
                   lagged, peers_before, late,
                   wallet_poisoned>>

\* lines 204-214 on an element whose result is Ok: the engine answers Ok or Err
DispatchCall ==
    /\ pc = "dispatch"
    /\ idx <= Len(requests_with_results)
    /\ requests_with_results[idx].result.ok
    /\ IsSome(requests_with_results[idx].counterparty_node_id)
    /\ LET entry == requests_with_results[idx]
       IN \E accepted \in BOOLEAN :
             /\ completions' =
                   Append(completions, Call(entry, Unwrap(funding_tx), accepted))
             /\ results' = Append(results,
                                  <<entry.request,
                                    IF accepted THEN entry.result ELSE Err("LdkApi")>>)
    /\ idx' = idx + 1
    /\ UNCHANGED <<pc, input, requests, requests_with_results, filters, given, events,
                   current_ms, timeout_ms, interval_ms, suspensions, bus, peers,
                   channels, unsent, foreign, wallet_locked, fee_native, fee_rate,
                   funding_tx, debounce, initiation,
                   drained, panic,
                   lagged, peers_before, late,
                   wallet_poisoned>>

\* lines 215-217 on an element whose result is Err
DispatchSkip ==
    /\ pc = "dispatch"
    /\ idx <= Len(requests_with_results)
    /\ ~requests_with_results[idx].result.ok
    /\ LET entry == requests_with_results[idx]
       IN results' = Append(results, <<entry.request, entry.result>>)
    /\ idx' = idx + 1
    /\ UNCHANGED <<pc, input, requests, requests_with_results, filters, given, events,
                   current_ms, timeout_ms, interval_ms, suspensions, bus, peers,
                   channels, unsent, foreign, wallet_locked, fee_native, fee_rate,
                   funding_tx, debounce, completions, initiation,
                   drained, panic,
                   lagged, peers_before, late,
                   wallet_poisoned>>

\* lines 219-220: collect ends, the locals (the wallet guard among them) are dropped
Return ==
    /\ pc = "dispatch"
    /\ idx > Len(requests_with_results)
    /\ wallet_locked' = FALSE
    /\ pc' = "done"
    /\ UNCHANGED <<input, requests, idx, requests_with_results, filters, given, events,
                   current_ms, timeout_ms, interval_ms, suspensions, bus, peers,
                   channels, unsent, foreign, fee_native, fee_rate, funding_tx, debounce,
                   completions, results, initiation,
                   drained, panic,
                   lagged, peers_before, late,
                   wallet_poisoned>>

----------------------------------------------------------------------------
(* The environment: the protocol engine and the rest of the node send events on  *)
(* the broadcast channel at any time.  The receiver retains the BusCapacity       *)
(* newest events it has not read; a send that finds it full overwrites the oldest *)
(* one, and the receiver's next try_recv reports the lag.                         *)

\* wait_for_events has returned to open_batch (line 128 is passed)
WaitReturned ==
    \/ pc \in {"correlated", "assemble", "debounce", "dispatch", "done"}
    \/ pc = "panicked" /\ panic = "wallet"

\* what the receiver holds after e is sent
Sent(b, e) == IF Len(b) < BusCapacity THEN Append(b, e) ELSE Append(Tail(b), e)

\* the send overwrites an event the receiver has not read
Overruns(b) == Len(b) >= BusCapacity

\* the engine emits the funding-ready event of a channel it created
EngineEmits ==
    /\ \E t \in unsent :
          /\ bus' = Sent(bus, EventOf(channels[t]))
          /\ unsent' = unsent \ {t}
    /\ lagged' = (lagged \/ Overruns(bus))
    /\ late' = late \cup (IF WaitReturned THEN unsent \ unsent' ELSE {})
    /\ UNCHANGED <<pc, input, requests, idx, requests_with_results, filters, given,
                   events, current_ms, timeout_ms, interval_ms, suspensions, peers,
                   channels, foreign, wallet_locked, fee_native, fee_rate, funding_tx,
                   debounce, completions, results, initiation, drained, panic,
                   peers_before,
                   wallet_poisoned>>

\* an event of other activity reaches the receiver
ForeignSend ==
    /\ foreign < MaxForeign
    /\ \E e \in ForeignEvents : bus' = Sent(bus, e)
    /\ lagged' = (lagged \/ Overruns(bus))
    /\ foreign' = foreign + 1
    /\ UNCHANGED <<pc, input, requests, idx, requests_with_results, filters, given,
                   events, current_ms, timeout_ms, interval_ms, suspensions, peers,
                   channels, unsent, wallet_locked, fee_native, fee_rate, funding_tx,
                   debounce, completions, results, initiation, drained, panic,
                   peers_before, late,
                   wallet_poisoned>>

----------------------------------------------------------------------------
(* The batch specification *)

Init ==
    /\ pc = "start"
    /\ input \in Batches
    /\ requests = <<>>
    /\ idx = 1
    /\ requests_with_results = <<>>
    /\ filters = <<>>
    /\ given = <<>>
    /\ events = <<>>
    /\ current_ms = 0
    /\ timeout_ms = 0
    /\ interval_ms = 0
    /\ suspensions = 0
    /\ bus = <<>>
    /\ peers = InitPeers
    /\ channels = <<>>
    /\ unsent = {}
    /\ foreign = 0
    /\ wallet_locked = FALSE
    /\ fee_native = 0
    /\ fee_rate = F32Zero
    /\ funding_tx = None
    /\ debounce = <<>>
    /\ completions = <<>>
    /\ results = <<>>
    /\ initiation = <<>>
    /\ drained = <<>>
    /\ panic = "none"
    /\ lagged = FALSE
    /\ peers_before = InitPeers
    /\ late = {}
    /\ wallet_poisoned \in BOOLEAN

Next ==
    \/ AssignIds
    \/ InitiatePanics
    \/ AwaitParseAddr
    \/ ParseAddrPanics
    \/ AwaitConnect
    \/ ConnectPanics
    \/ PeerConnected
    \/ InitiateCreated
    \/ InitiateRejected
    \/ CallWait
    \/ TryRecvEvent
    \/ TryRecvErr
    \/ Wake
    \/ Reclassify
    \/ LockPanics
    \/ Assemble
    \/ AssemblePanics
    \/ SetDebounce
    \/ DispatchCall
    \/ DispatchSkip
    \/ Return
    \/ EngineEmits
    \/ ForeignSend

Spec == Init /\ [][Next]_vars

----------------------------------------------------------------------------
(* The correlator on its own: wait_for_events called with any filter set, any   *)
(* timeout and interval, and senders that put any event on the bus              *)

\* events sent while one call of wait_for_events runs
MaxSends == 3

WaitFilters == { [node_id |-> NodeId, user_channel_id |-> id] : id \in 1..2 }

WaitFilterSets == SeqsUpTo(WaitFilters, MaxReq)

WaitTimeouts == {0, 1000, 1200, 2000}

WaitIntervals == {500}

WaitEvents ==
    { FundingGenerationReady(NodeId, 1, "pA", 1, <<"p2wsh", 1>>),
      FundingGenerationReady(NodeId, 2, "pB", 2, <<"p2wsh", 2>>),
      FundingGenerationReady(OtherNodeId, 1, "pX", 9, <<"p2wsh", 0>>),
      OtherEvent }

\* lines 52-60: the state as the call begins
InitWait ==
    /\ input = <<>>
    /\ requests = <<>>
    /\ idx = 1
    /\ requests_with_results = <<>>
    /\ filters \in WaitFilterSets
    /\ given = filters
    /\ events = <<>>
    /\ current_ms = 0
    /\ timeout_ms \in WaitTimeouts
    /\ interval_ms \in WaitIntervals
    /\ pc = IF 0 < timeout_ms THEN "drain" ELSE "correlated"
    /\ suspensions = 0
    /\ bus = <<>>
    /\ peers = InitPeers
    /\ channels = <<>>
    /\ unsent = {}
    /\ foreign = 0
    /\ wallet_locked = FALSE
    /\ fee_native = 0
    /\ fee_rate = F32Zero
    /\ funding_tx = None
    /\ debounce = <<>>
    /\ completions = <<>>
    /\ results = <<>>
    /\ initiation = <<>>
    /\ drained = <<>>
    /\ panic = "none"
    /\ lagged = FALSE
    /\ peers_before = InitPeers
    /\ late = {}
    /\ wallet_poisoned = FALSE

\* a subscriber of the broadcast channel receives what any sender sends
AnySend ==
    /\ foreign < MaxSends
    /\ \E e \in WaitEvents : bus' = Sent(bus, e)
    /\ lagged' = (lagged \/ Overruns(bus))
    /\ foreign' = foreign + 1
    /\ UNCHANGED <<pc, input, requests, idx, requests_with_results, filters, given,
                   events, current_ms, timeout_ms, interval_ms, suspensions, peers,
                   channels, unsent, wallet_locked, fee_native, fee_rate, funding_tx,
                   debounce, completions, results, initiation, drained, panic,
                   peers_before, late,
                   wallet_poisoned>>

NextWait ==
    \/ TryRecvEvent
    \/ TryRecvErr
    \/ Wake
    \/ AnySend

SpecWait == InitWait /\ [][NextWait]_vars

\* the correlator's task is scheduled whenever it can run: a try_recv that can return
\* returns, a sleep that was started ends.  Nothing is assumed of the senders.
SpecWaitLive ==
    /\ SpecWait
    /\ WF_vars(TryRecvEvent)
    /\ WF_vars(TryRecvErr)
    /\ WF_vars(Wake)

----------------------------------------------------------------------------
(* The fee-rate conversion on its own *)

\* largest native rate of the dense range
MaxFee == 600

FeeInputs == (0..MaxFee) \cup {1000, 2500, 16777215, 16777217, 1073741823}

InitFee ==
    /\ pc = "assemble"
    /\ input = <<>>
    /\ requests = <<>>
    /\ idx = 1
    /\ requests_with_results = <<>>
    /\ filters = <<>>
    /\ given = <<>>
    /\ events = <<>>
    /\ current_ms = 0
    /\ timeout_ms = TimeoutMs
    /\ interval_ms = IntervalMs
    /\ suspensions = 0
    /\ bus = <<>>
    /\ peers = InitPeers
    /\ channels = <<>>
    /\ unsent = {}
    /\ foreign = 0
    /\ wallet_locked = FALSE
    /\ fee_native \in FeeInputs
    /\ fee_rate = F32Zero
    /\ funding_tx = None
    /\ debounce = <<>>
    /\ completions = <<>>
    /\ results = <<>>
    /\ initiation = <<>>
    /\ drained = <<>>
    /\ panic = "none"
    /\ lagged = FALSE
    /\ peers_before = InitPeers
    /\ late = {}
    /\ wallet_poisoned = FALSE

\* lines 165-176 for the rate the estimator returned
ConvertFee ==
    /\ pc = "assemble"
    /\ fee_rate' = sat_per_vb(fee_native)
    /\ pc' = "fee_set"
    /\ UNCHANGED <<input, requests, idx, requests_with_results, filters, given, events,
                   current_ms, timeout_ms, interval_ms, suspensions, bus, peers,
                   channels, unsent, foreign, wallet_locked, fee_native, funding_tx,
                   debounce, completions, results, initiation,
                   drained, panic,
                   lagged, peers_before, late,
                   wallet_poisoned>>

NextFee == ConvertFee

SpecFee == InitFee /\ [][NextFee]_vars

----------------------------------------------------------------------------
(* Properties.  Terms they share *)

Returned == pc = "done"
Ended == pc \in {"done", "panicked"}

IdOf(r) == Unwrap(r.custom_id)

\* the requests whose initiation call returned Ok
Initiated == {k \in 1..Len(initiation) : initiation[k].ok}

NeverHappened == Err("FundingGenerationNeverHappened")

\* the requests reported as funding-negotiation-failed
ReportedNeverHappened == {k \in 1..Len(results) : results[k][2] = NeverHappened}

\* the completion calls made for request k
CallsFor(k) ==
    {c \in 1..Len(completions) :
        initiation[k].ok /\ completions[c].tcid = initiation[k].tcid}

\* the result pairs the request that was submitted at the same position, with the
\* id it was submitted with or the one it was given
PairedInOrder ==
    /\ Len(results) = Len(input)
    /\ \A k \in 1..Len(results) :
          /\ results[k][1] = requests[k]
          /\ requests[k] = [input[k] EXCEPT !.custom_id = requests[k].custom_id]
          /\ IsSome(requests[k].custom_id)
          /\ IsSome(input[k].custom_id) => requests[k] = input[k]

----------------------------------------------------------------------------
\* C1: whatever happens to the requests of a batch, open_batch ends having returned
\* exactly one result per input request, in input order, each paired with its own
\* (possibly id-assigned) request.
C1_OneResultPerRequest == Ended => PairedInOrder

\* C1, for the invocations that return: the returned vector pairs the requests in order
C1_WhenReturned == Returned => PairedInOrder

----------------------------------------------------------------------------
\* C2: before any protocol call every request has a correlation id; a generated id
\* is non-zero and differs from the id of every other request of the batch; a
\* supplied id is kept; no id changes afterwards.
C2_IdsAssigned ==
    /\ pc = "start" => (initiation = <<>> /\ channels = <<>> /\ completions = <<>>)
    /\ pc # "start" =>
          /\ Len(requests) = Len(input)
          /\ \A k \in 1..Len(requests) :
                /\ IsSome(requests[k].custom_id)
                /\ IsSome(input[k].custom_id) =>
                      requests[k].custom_id = input[k].custom_id
                /\ ~IsSome(input[k].custom_id) =>
                      /\ IdOf(requests[k]) # 0
                      /\ \A j \in 1..Len(requests) :
                            j # k => IdOf(requests[j]) # IdOf(requests[k])
          /\ \A k \in 1..Len(requests_with_results) :
                requests_with_results[k].request = requests[k]
          /\ \A k \in 1..Len(results) : results[k][1] = requests[k]

\* C2 without batch-uniqueness: what lines 87-97 do guarantee
C2_AssignedNonZeroKept ==
    pc # "start" =>
        \A k \in 1..Len(requests) :
            /\ IsSome(requests[k].custom_id)
            /\ IsSome(input[k].custom_id) => requests[k].custom_id = input[k].custom_id
            /\ ~IsSome(input[k].custom_id) => IdOf(requests[k]) \in 1..(U64Max - 1)

----------------------------------------------------------------------------
\* C3: with N requests initiated and K of their N filters unmatched when the
\* correlator returns, N-K requests get a completion call and K requests end as
\* FundingGenerationNeverHappened, with no completion call made for them.
C3_UnmatchedReported ==
    Returned =>
        LET N == Len(given)
            K == Len(filters)
        IN /\ N = Cardinality(Initiated)
           /\ Len(completions) = N - K
           /\ Cardinality(ReportedNeverHappened) = K
           /\ \A k \in ReportedNeverHappened : k \in Initiated /\ CallsFor(k) = {}

----------------------------------------------------------------------------
\* C4 as claimed: the count given to set_debounce is the number of requests whose
\* initiation call succeeded, matched or not.
C4_CountIsInitiated ==
    \A d \in 1..Len(debounce) : debounce[d].count = Cardinality(Initiated)

\* the initiated requests for which the lookup of lines 136-149 finds a matched event
InitiatedAndMatched ==
    {k \in Initiated : FindEvent(events, IdOf(requests[k])) # 0}

\* C4: set_debounce is called at most once, with the id of the shared transaction and
\* the number of requests whose initiation succeeded and for whose correlation id a
\* matched event was found; later completion outcomes do not change it.
C4_CountIsInitiatedAndMatched ==
    /\ Len(debounce) <= 1
    /\ pc \in {"dispatch", "done"} => Len(debounce) = 1
    /\ \A d \in 1..Len(debounce) :
          /\ debounce[d].txid = Txid(Unwrap(funding_tx))
          /\ debounce[d].count = Cardinality(InitiatedAndMatched)

\* C4 witness: a batch returned after registering fewer requests than were initiated,
\* and after the engine rejected a completion
C4_Witness ==
    /\ Returned
    /\ Len(debounce) = 1
    /\ debounce[1].count = 1
    /\ Cardinality(Initiated) = 2
    /\ \E k \in 1..Len(results) : results[k][2] = Err("LdkApi") /\ k \in Initiated

----------------------------------------------------------------------------
ConnectivityPanics ==
    { "you must provide connection information",
      "failed to parse host port for counterparty",
      "failed to connect to peer" }

\* C5: a request that fails validation or connectivity during initiation fails
\* alone: initiation hands back an error value for it and the batch goes on, so
\* open_batch never ends in one of the connectivity failures.
C5_FailsAlone == panic \notin ConnectivityPanics

----------------------------------------------------------------------------
\* C6: the shared transaction has one channel output per matched event the
\* correlator returned, none for anything else, each with the value and the output
\* script of its event.
C6_OutputsAreMatchedEvents ==
    IsSome(funding_tx) =>
        LET output == Unwrap(funding_tx).output
        IN /\ Len(output) = Len(events)
           /\ \A k \in 1..Len(events) :
                 /\ output[k].script = events[k].output_script
                 /\ output[k].value = events[k].channel_value_satoshis

\* C6 witness: a transaction built from two matched events that carry one
\* correlation id and different scripts and values
C6_Witness ==
    /\ IsSome(funding_tx)
    /\ Len(events) = 2
    /\ events[1].user_channel_id = events[2].user_channel_id
    /\ events[1].output_script # events[2].output_script
    /\ events[1].channel_value_satoshis # events[2].channel_value_satoshis
    /\ Len(Unwrap(funding_tx).output) = 2

----------------------------------------------------------------------------
\* every request targets a distinct peer that was connected before the batch, every
\* initiation succeeded
DistinctConnectedInitiated ==
    /\ \A k \in 1..Len(requests) : requests[k].counterparty_pubkey \in InitPeers
    /\ \A j, k \in 1..Len(requests) :
          j # k => requests[j].counterparty_pubkey # requests[k].counterparty_pubkey
    /\ Initiated = 1..Len(requests)

\* every request ends with its temporary channel id, the transaction has as many
\* outputs as there are requests, the debouncer is registered once with that count,
\* one completion call is made per request
AllOpened ==
    /\ \A k \in 1..Len(results) : results[k][2] = initiation[k]
    /\ IsSome(funding_tx)
    /\ Len(Unwrap(funding_tx).output) = Len(requests)
    /\ debounce = << [txid |-> Txid(Unwrap(funding_tx)), count |-> Len(requests)] >>
    /\ Len(completions) = Len(requests)
    /\ \A k \in 1..Len(requests) : Cardinality(CallsFor(k)) = 1

\* every funding-ready event was sent before the correlation wait returned
AllSentInTime == unsent = {} /\ late = {}

\* C7 as claimed: distinct connected peers, every initiation succeeds, every
\* funding-ready event is sent while the correlator is within its timeout.
C7_HappyPathAsClaimed ==
    (Returned /\ DistinctConnectedInitiated /\ AllSentInTime) => AllOpened

\* try_recv handed the funding-ready event of every created channel to the correlator
AllDrained ==
    \A t \in 1..Len(channels) :
        \E d \in 1..Len(drained) : drained[d] = EventOf(channels[t])

AllAccepted == \A c \in 1..Len(completions) : completions[c].accepted

\* C7: if moreover every funding-ready event is received by a poll of the correlator
\* (it is neither sent after the last poll nor overwritten in the receiver before it
\* is read), and the engine accepts every completion call, a batch that returns has
\* opened every channel.
C7_HappyPath ==
    (Returned /\ DistinctConnectedInitiated /\ AllDrained /\ AllAccepted) => AllOpened

\* C7 witness: two requests opened that way
C7_Witness ==
    /\ Returned
    /\ Len(requests) = 2
    /\ DistinctConnectedInitiated
    /\ AllDrained
    /\ AllAccepted
    /\ Len(completions) = 2

----------------------------------------------------------------------------
\* C8: called with an empty filter set, the correlator returns an empty result at
\* once, without any poll-interval suspension, whatever is on the bus.
C8_EmptyFilterSetNoSuspension ==
    given = <<>> => (suspensions = 0 /\ pc # "sleep" /\ events = <<>>)

----------------------------------------------------------------------------
\* the filters of fs an event satisfies
Satisfied(fs, e) == {j \in 1..Len(fs) : Matches(fs[j], e)}

\* what a call given the filters fs records of the events ds it drains: an event is
\* recorded while fewer events satisfying its filters are recorded than such filters
\* were given
RECURSIVE FirstMatches(_, _)
FirstMatches(ds, fs) ==
    IF ds = <<>> THEN <<>>
    ELSE LET before == FirstMatches(SubSeq(ds, 1, Len(ds) - 1), fs)
             e == ds[Len(ds)]
             same == {k \in 1..Len(before) : Satisfied(fs, before[k]) = Satisfied(fs, e)}
         IN IF Cardinality(same) < Cardinality(Satisfied(fs, e))
            THEN Append(before, e)
            ELSE before

\* C9: within one call each filter matches at most one event: the first drained
\* event that satisfies a remaining filter retires it, and later events that satisfy
\* only retired filters are not added to the result.
C9_FirstMatchRetires ==
    /\ events = FirstMatches(drained, given)
    /\ \A j \in 1..Len(given) :
          Cardinality({k \in 1..Len(events) : Matches(given[j], events[k])})
             <= Cardinality({i \in 1..Len(given) : given[i] = given[j]})

\* C9 witness: two different filters given, the first matched, and the event that
\* matched it drained a second time while the other filter is still waiting
C9_Witness ==
    /\ Len(given) = 2
    /\ given[1] # given[2]
    /\ Len(filters) = 1
    /\ Len(events) = 1
    /\ \E i, j \in 1..Len(drained) :
          /\ i < j
          /\ drained[i] = events[1]
          /\ drained[j] = events[1]
          /\ Matches(given[1], events[1])

----------------------------------------------------------------------------
F32Two == F32(MantLo, -22)

Abs(x) == IF x < 0 THEN -x ELSE x

\* the f32 v is the one nearest to r / 250, for 0 < r and v < 2^23:
\* |m * 2^e - r / 250| <= 2^e / 2, in integers 2 * |125 * m - r * 2^(-e-1)| <= 125
NearestToQuotient(v, r) ==
    /\ v.m \in MantLo..(MantHi - 1)
    /\ v.e <= -1
    /\ Abs(125 * v.m - r * 2^(-v.e - 1)) <= 62

\* C10: the conversion maps 253 to exactly 1.0 and every other native rate r to
\* r / 250 (in f32), so 500 to 2.0 and 0 to 0.0.
C10_FeeConversion ==
    pc = "fee_set" =>
        /\ fee_native = 253 => fee_rate = F32One
        /\ fee_native = 500 => fee_rate = F32Two
        /\ fee_native = 0 => fee_rate = F32Zero
        /\ fee_native \notin {0, 253} => NearestToQuotient(fee_rate, fee_native)

\* C10 witness: the estimator's floor converted
C10_Witness == pc = "fee_set" /\ fee_native = 253 /\ fee_rate = F32One

----------------------------------------------------------------------------
\* the correlation wait is over: every filter matched or the timeout reached
WaitOver == filters = <<>> \/ current_ms >= timeout_ms

\* create_channel was called for the requests in the order the caller gave them:
\* the channel of a later request was created later, and each channel carries its
\* request's peer, amount and correlation id
InitiatedInCallerOrder ==
    /\ Len(initiation) <= Len(requests)
    /\ \A k \in Initiated :
          /\ initiation[k].tcid \in 1..Len(channels)
          /\ channels[initiation[k].tcid] = ChannelFor(requests[k], initiation[k].tcid)
          /\ \A j \in Initiated : j < k => initiation[j].tcid < initiation[k].tcid

\* C11: the steps of a batch occur in this order: every request is initiated, in
\* caller order; then the one correlation wait runs; then the shared transaction is
\* assembled; then the debouncer is registered with its id; only then is any
\* completion call made, and every completion call carries the registered transaction.
C11_StepsInOrder ==
    /\ InitiatedInCallerOrder
    /\ (pc \in {"drain", "sleep"} \/ drained # <<>> \/ suspensions > 0) =>
          Len(initiation) = Len(requests)
    /\ IsSome(funding_tx) =>
          /\ Len(initiation) = Len(requests)
          /\ Len(given) = Cardinality(Initiated)
          /\ WaitOver
    /\ Len(debounce) > 0 =>
          /\ IsSome(funding_tx)
          /\ Len(debounce) = 1
          /\ debounce[1].txid = Txid(Unwrap(funding_tx))
    /\ Len(completions) > 0 =>
          /\ Len(debounce) = 1
          /\ \A c \in 1..Len(completions) : Txid(completions[c].tx) = debounce[1].txid

\* C11 witness: a batch of two went through every step, the wait having suspended
C11_Witness ==
    /\ Returned
    /\ Len(initiation) = 2
    /\ suspensions > 0
    /\ Len(debounce) = 1
    /\ Len(completions) = 2

----------------------------------------------------------------------------
\* the matched event the lookup by correlation id gives request k, 0 if none
EventFor(k) == FindEvent(events, IdOf(requests[k]))

\* C12: a request whose initiation succeeded and for whose correlation id a
\* funding-ready event was matched gets exactly one completion call, with its
\* temporary channel id, the counterparty carried by that event and the shared
\* transaction registered with the debouncer; no other request gets any call.
C12_CompletionCalls ==
    /\ \A c \in 1..Len(completions) :
          \E k \in Initiated : completions[c].tcid = initiation[k].tcid
    /\ \A k \in 1..Len(initiation) :
          /\ Cardinality(CallsFor(k)) <= 1
          /\ \A c \in CallsFor(k) :
                /\ EventFor(k) # 0
                /\ completions[c].counterparty_node_id =
                      events[EventFor(k)].counterparty_node_id
                /\ completions[c].tx = Unwrap(funding_tx)
                /\ Txid(completions[c].tx) = debounce[1].txid
          /\ (Returned /\ k \in Initiated /\ EventFor(k) # 0) =>
                Cardinality(CallsFor(k)) = 1

\* C12 witness: of two initiated requests one was matched and called, the other was
\* neither
C12_Witness ==
    /\ Returned
    /\ Cardinality(Initiated) = 2
    /\ Len(completions) = 1
    /\ \E k \in Initiated : EventFor(k) = 0 /\ CallsFor(k) = {}
    /\ \E k \in Initiated : EventFor(k) # 0 /\ Cardinality(CallsFor(k)) = 1

----------------------------------------------------------------------------
\* the requests that got a completion call
Called == {k \in 1..Len(initiation) : CallsFor(k) # {}}

\* C13: when the engine rejects the completion call of a request, that request's
\* result becomes LdkApi; the other requests still get their calls and keep the
\* results their own calls and earlier stages gave them; the debouncer registration
\* stays as it was made, rejected calls included in its count.
C13_RejectedCompletionIsolated ==
    /\ \A k \in Called : \A c \in CallsFor(k) :
          /\ k <= Len(results)
          /\ results[k][2] =
                IF completions[c].accepted THEN initiation[k] ELSE Err("LdkApi")
    /\ \A k \in 1..Len(results) :
          k \notin Called => results[k][2] = requests_with_results[k].result
    /\ pc \in {"dispatch", "done"} =>
          debounce = << [txid |-> Txid(Unwrap(funding_tx)),
                         count |-> channels_to_open(requests_with_results)] >>
    /\ Returned =>
          /\ Len(results) = Len(requests_with_results)
          /\ Cardinality(Called) = channels_to_open(requests_with_results)
          /\ Cardinality(Called) = debounce[1].count

\* C13 witness: the first of two completion calls was rejected, the second accepted
C13_Witness ==
    /\ Returned
    /\ Len(completions) = 2
    /\ ~completions[1].accepted
    /\ completions[2].accepted
    /\ results[1][2] = Err("LdkApi")
    /\ results[2][2].ok
    /\ debounce[1].count = 2

----------------------------------------------------------------------------
\* the requests whose initiation call returned Err
Rejected == {k \in 1..Len(initiation) : ~initiation[k].ok}

\* C14: a request whose create_channel was rejected gets no filter, adds no output,
\* is not counted by the debouncer, gets no completion call, and ends with exactly
\* its initiation error; correlation, assembly and dispatch leave its result alone.
C14_RejectedInitiationInert ==
    /\ Len(filters) + Len(events) = Cardinality(Initiated)
    /\ WaitReturned \/ pc \in {"drain", "sleep"} => Len(given) = Cardinality(Initiated)
    /\ IsSome(funding_tx) => Len(Unwrap(funding_tx).output) <= Cardinality(Initiated)
    /\ \A d \in 1..Len(debounce) : debounce[d].count <= Cardinality(Initiated)
    /\ Len(completions) = Cardinality(Called)
    /\ Called \cap Rejected = {}
    /\ \A k \in Rejected :
          /\ requests_with_results[k] = Entry(requests[k], initiation[k], None)
          /\ k <= Len(results) => results[k] = <<requests[k], initiation[k]>>
    /\ Returned => Len(results) = Len(initiation)

\* C14 witness: a batch returned in which one request was rejected at initiation and
\* the other was opened
C14_Witness ==
    /\ Returned
    /\ Cardinality(Rejected) = 1
    /\ Cardinality(Initiated) = 1
    /\ Len(completions) = 1
    /\ Len(Unwrap(funding_tx).output) = 1
    /\ debounce[1].count = 1
    /\ \A k \in Rejected : results[k][2] = Err("LdkApi")

----------------------------------------------------------------------------
\* C15: the wallet lock of a batch covers the assembly step only: it is released
\* before the debouncer is registered and before any completion call is made.
C15_LockCoversOnlyAssembly ==
    pc \in {"debounce", "dispatch"} => ~wallet_locked

----------------------------------------------------------------------------
\* the unwrap of line 190 or of line 191 panicked: the lock had been taken and the
\* estimator asked
BuildOrSignFailed == panic = "wallet" /\ fee_native \in FeeEstimates

\* C16: when the wallet fails to build or sign the shared transaction, nothing is
\* registered with the debouncer, no completion call is made, and open_batch returns
\* one result per request: the same error for every request that had reached
\* assembly successfully, the earlier error for every request that had failed.
C16_WalletFailureReturnsErrors ==
    BuildOrSignFailed =>
        /\ debounce = <<>>
        /\ completions = <<>>
        /\ Returned
        /\ Len(results) = Len(requests_with_results)
        /\ \A k \in 1..Len(results) :
              /\ ~results[k][2].ok
              /\ ~requests_with_results[k].result.ok =>
                    results[k][2] = requests_with_results[k].result
              /\ \A j \in 1..Len(results) :
                    (requests_with_results[j].result.ok
                       /\ requests_with_results[k].result.ok) =>
                          results[j][2] = results[k][2]

----------------------------------------------------------------------------
\* ceil(timeout_ms / interval_ms)
MaxSuspensions == (timeout_ms + interval_ms - 1) \div interval_ms

\* what holds of every state of a correlator call
WaitBounded ==
    /\ suspensions <= MaxSuspensions
    /\ pc # "sleep" => current_ms = suspensions * interval_ms
    /\ pc = "sleep" => current_ms = (suspensions - 1) * interval_ms
    /\ pc \in {"drain", "sleep"} => current_ms < timeout_ms
    /\ (given # <<>> /\ filters = <<>>) => pc = "correlated"
    /\ pc = "correlated" =>
          /\ WaitOver
          /\ filters # <<>> => suspensions = MaxSuspensions
          /\ Len(events) = Len(given) - Len(filters)

\* C17: the correlator terminates.  It drains and suspends in turn, returns as soon
\* as no filter remains, and otherwise returns once the suspensions add up to the
\* timeout, after ceil(timeout / interval) of them, with the events matched so far.
C17_CorrelatorTerminates ==
    /\ <>(pc = "correlated")
    /\ []WaitBounded

\* C17 witness: a call with timeout 1200 and interval 500 returned a partial result
\* after its third suspension
C17_Witness ==
    /\ pc = "correlated"
    /\ timeout_ms = 1200
    /\ suspensions = 3
    /\ Len(given) = 2
    /\ Len(filters) = 1
    /\ Len(events) = 1

----------------------------------------------------------------------------
\* the latest initiation call has returned an error and the next has not begun
LastInitiationFailed ==
    /\ pc = "initiate"
    /\ initiation # <<>>
    /\ ~initiation[Len(initiation)].ok

\* C18: a failed initiation leaves shared state as it was before the call: the set
\* of connected peers is unchanged, even if a connection was made for the request
\* before the engine rejected it, and no channel was created.
C18_FailedInitiationLeavesState ==
    LastInitiationFailed =>
        /\ peers = peers_before
        /\ Len(channels) = Cardinality(Initiated)

----------------------------------------------------------------------------
\* C19: in a batch that reaches dispatch, the count registered with the debouncer,
\* which is the number of requests dispatched to completion, equals the number of
\* channel outputs of the shared transaction, and the dispatched requests are backed
\* by matched events that differ from one request to the other; also when two
\* requests carry one correlation id and one event with that id was matched.
C19_CountEqualsOutputs ==
    pc \in {"dispatch", "done"} =>
        /\ debounce[1].count = Len(Unwrap(funding_tx).output)
        /\ debounce[1].count = Cardinality(InitiatedAndMatched)
        /\ \A j, k \in InitiatedAndMatched : j # k => EventFor(j) # EventFor(k)

----------------------------------------------------------------------------
\* how often x occurs in the sequence q
Count(q, x) == Cardinality({i \in 1..Len(q) : q[i] = x})

\* the filters given are the filters remaining and the filters retired by a
\* recorded event, one for one
Accounted ==
    /\ Len(events) + Len(filters) = Len(given)
    /\ \A j \in 1..Len(given) :
          Count(given, given[j]) =
             Count(filters, given[j])
               + Cardinality({k \in 1..Len(events) : Matches(given[j], events[k])})
    /\ \A k \in 1..Len(events) :
          /\ Satisfied(given, events[k]) # {}
          /\ \E d \in 1..Len(drained) : drained[d] = events[k]
    /\ \A d \in 1..Len(drained) :
          Satisfied(given, drained[d]) = {} =>
              \A k \in 1..Len(events) : events[k] # drained[d]

\* one event is taken from the receiver; it is recorded, and one filter retired,
\* exactly if it satisfies a filter that still remains
DrainStep ==
    drained' # drained =>
        /\ bus # <<>>
        /\ bus' = Tail(bus)
        /\ drained' = Append(drained, Head(bus))
        /\ IF Satisfied(filters, Head(bus)) # {}
           THEN /\ events' = Append(events, Head(bus))
                /\ Len(filters') = Len(filters) - 1
           ELSE /\ events' = events
                /\ filters' = filters

\* C20: throughout a correlator call the recorded events and the remaining filters
\* add up to the filters given; a recorded event satisfied a filter that remained
\* when it was drained; a drained event that satisfies no remaining filter is
\* consumed and not recorded; nothing else changes the record or the filters.
C20_CorrelatorAccounting ==
    /\ []Accounted
    /\ [][DrainStep /\ (drained' = drained => (events' = events /\ filters' = filters))]_vars

\* C20 witness: of two filters given one remains, after one event was recorded and
\* another, satisfying no filter, was consumed
C20_Witness ==
    /\ Len(given) = 2
    /\ Len(filters) = 1
    /\ Len(events) = 1
    /\ Len(drained) = 2
    /\ \E d \in 1..Len(drained) : Satisfied(given, drained[d]) = {}

====
